---- MODULE Spec2Model ----
(***************************************************************************)
(* Model of the forum bot core of ShuiyuanAutoReply:                       *)
(*   - BaseTopicModel.watch_new_post_routine (src/src/shuiyuan/            *)
(*     topic_model.py): the polling loop, its stream diff and its          *)
(*     fire-and-forget handler dispatch;                                   *)
(*   - ShuiyuanModel (src/src/shuiyuan/shuiyuan_model.py): the shared      *)
(*     session, create()/close() reference counting and the chained-future *)
(*     rate limiter _rate_limited_request, and reply_to_post;              *)
(*   - the handlers of the concrete bots (src/stock_topic_model.py,        *)
(*     src/example/models/record_topic_model.py, mention_model.py);        *)
(*   - the cron jobs of BaseTopicModel beside the watch loops (src/main.py)*)
(*   - BaseUserActionModel.watch_new_action_routine and                    *)
(*     _make_unique_reply (src/src/shuiyuan/user_action_model.py);         *)
(*   - the HTTP operations of ShuiyuanModel and the way each sends its     *)
(*     request.                                                            *)
(***************************************************************************)
EXTENDS Integers, Sequences, FiniteSets, TLC

\* ------------------------------------------------------------------ bounds
NumIds == 3
MaxLen == 3
MaxTasks == 2
MaxFailures == 2
NumRequests == 2
NumCreators == 2
MaxClock == 2
MaxRetries == 2
MaxSelfReplies == 2
NumWatchers == 1
MaxFires == 2
MaxActions == 2
AlphabetSize == 3
NonceLen == 2
MaxReplies == 2

\* ShuiyuanModel._request_interval (seconds; one clock tick is one second)
request_interval == 1

Ids == 1..NumIds

\* ------------------------------------------------------------------ state
VARIABLES
    stream_list,    \* BaseTopicModel.stream_list: snapshot of the last successful fetch
    wpc,            \* position of watch_new_post_routine
    tasks,          \* handler tasks created by asyncio.gather, in creation order
    topic_stream,   \* the forum's current post stream (what a fetch returns)
    first_poll,     \* history: the sequence returned by the first successful fetch
    last_poll,      \* history: what the last successful fetch found of the old snapshot
    failures,       \* history: number of consecutive failed fetches
    removed_ids,    \* history: the ids deleted from the forum's stream
    skipped_ids     \* history: the ids fetched by a poll whose snapshot was empty

watchVars == <<stream_list, wpc, tasks, topic_stream, first_poll, last_poll, failures,
               removed_ids, skipped_ids>>

\* the shared state of ShuiyuanModel (class attributes) and its callers
VARIABLES
    shared_session,     \* _shared_session: None, or the session object (by number)
    closed_sessions,    \* the session objects whose .closed is true
    sessions_made,      \* history: number of aiohttp.ClientSession() constructions
    lock_holder,        \* _session_init_lock: None when free, or the create() inside it
    lock_waiters,       \* create() calls queued on _session_init_lock, in order
    request_chain,      \* _request_chain: None, or a future
    fut_done,           \* the next_future objects whose result is set
    last_request_ts,    \* _last_request_ts
    active_instances,   \* _active_instances
    clock,              \* time.monotonic()
    cpc,                \* position of each create() call / state of its instance
    rpc,                \* position of each _rate_limited_request call
    wait_for,           \* local wait_for of each call
    wake,               \* end of the cooldown sleep of each call
    entered,            \* history: calls in the order they took their ticket
    issued,             \* history: calls in the order their HTTP call was issued
    issued_at,          \* history: time of the latest HTTP call (None before the first)
    closest             \* history: least time between two consecutive HTTP calls

gateVars == <<shared_session, closed_sessions, sessions_made, lock_holder, lock_waiters,
              request_chain, fut_done, last_request_ts, active_instances, clock,
              cpc, rpc, wait_for, wake, entered, issued, issued_at, closest>>

\* one invocation of a concrete bot's handler (_new_post_routine /
\* _new_action_routine) and the reply_to_post call it makes
VARIABLES
    bot,                \* the concrete bot whose handler runs
    hpc,                \* position of the handler
    post_raw,           \* PostDetails.raw of the post the handler was dispatched on
    from_bot,           \* history: that post is a reply the bot itself posted
    text,               \* local text of the handler
    post_details,       \* whether local post_details is bound
    reply_calls,        \* history: reply_to_post calls of this invocation
    conditions_run,     \* history: keyword conditions this invocation evaluated
    processing_raised,  \* history: a keyword condition raised in this invocation
    posts_sent,         \* history: POST requests of the reply_to_post call
    got429,             \* history: 429 responses the reply_to_post call received
    sleeps,             \* history: asyncio.sleep(1) calls of the reply_to_post call
    raised_by,          \* history: what made the handler raise
    self_replies        \* history: replies posted to posts the bot authored

botVars == <<bot, hpc, post_raw, from_bot, text, post_details, reply_calls,
             conditions_run, processing_raised, posts_sent, got429, sleeps,
             raised_by, self_replies>>

\* the scheduler of a topic model, its job and the watch loops beside it
VARIABLES
    job_pc,             \* position of the running _daily_routine ("idle": none runs)
    job_registered,     \* the job is in the scheduler's job store
    scheduler_running,  \* the scheduler was started and not shut down
    job_fires,          \* history: executions started
    job_errors,         \* history: executions ended by an exception
    poll_pc,            \* position of each watch loop
    polled_during_job,  \* history: a poll completed during the current execution
    job_429,            \* history: 429 answers to the reply of the latest execution
    gate_queue          \* callers inside _rate_limited_request, in ticket order

schedVars == <<job_pc, job_registered, scheduler_running, job_fires, job_errors,
               poll_pc, polled_during_job, job_429, gate_queue>>

\* BaseUserActionModel.watch_new_action_routine
VARIABLES
    action_list,        \* BaseUserActionModel.stream_list
    action_tasks,       \* post ids of the handler tasks the last poll created
    action_prev,        \* history: stream_list before the last poll
    action_failures,    \* history: number of consecutive failed fetches
    action_yielded      \* history: the last iteration suspended at an await

actVars == <<action_list, action_tasks, action_prev, action_failures, action_yielded>>

\* one caller of the HTTP operations of ShuiyuanModel
VARIABLES
    call_op,        \* the operation in progress, NoOperation between two
    call_pc,        \* position of the operation
    call_retries,   \* reply_to_post: number of 429 responses so far
    http_calls      \* history: the HTTP calls issued and the way each was issued

callVars == <<call_op, call_pc, call_retries, http_calls>>

\* the calls of _make_unique_reply
VARIABLES
    tag_calls       \* history: body, nonce drawn and text returned of each call

tagVars == <<tag_calls>>

moreVars == <<callVars, tagVars>>

restVars == <<botVars, schedVars, actVars, moreVars>>

vars == <<watchVars, gateVars, restVars>>

\* ------------------------------------------------------- helper operators
Range(s) == {s[i] : i \in DOMAIN s}

\* Python's None for last_stream; post ids are positive
None == 0

\* marker for "no successful fetch yet" (ids are positive, so <<0>> is no stream)
NoPoll == <<0>>

\* all sequences of pairwise distinct ids of length <= n
DistinctSeqs(n) ==
    {s \in UNION {[1..k -> Ids] : k \in 0..n} :
        \A i, j \in DOMAIN s : i # j => s[i] # s[j]}

Streams == DistinctSeqs(MaxLen)

\* `post_id in new_stream`
Contains(s, x) == \E i \in DOMAIN s : s[i] = x

\* list.index(x): position of the first occurrence (1-based here)
IndexOf(s, x) == CHOOSE i \in DOMAIN s : s[i] = x /\ \A j \in 1..(i - 1) : s[j] # x

\* variant of LastStream: the scan runs forward and stops at the FIRST known id
LastStreamForward(prev, new_stream) ==
    IF \E k \in DOMAIN prev : Contains(new_stream, prev[k])
    THEN prev[CHOOSE k \in DOMAIN prev :
                /\ Contains(new_stream, prev[k])
                /\ \A j \in 1..(k - 1) : ~Contains(new_stream, prev[j])]
    ELSE None

\* topic_model.py 80-84: scan reversed(stream_list) for the first id that is in new_stream
RECURSIVE ScanReversed(_, _, _)
ScanReversed(prev, k, new_stream) ==
    IF k = 0 THEN None
    ELSE IF Contains(new_stream, prev[k]) THEN prev[k]
    ELSE ScanReversed(prev, k - 1, new_stream)

LastStream(prev, new_stream) == ScanReversed(prev, Len(prev), new_stream)

\* variant of NewPosts: the slice starts AT the last known post (off by one)
NewPostsInclusive(prev, new_stream) ==
    LET last_stream == LastStream(prev, new_stream) IN
    IF last_stream # None
    THEN SubSeq(new_stream, IndexOf(new_stream, last_stream), Len(new_stream))
    ELSE <<>>

\* variant of NewPosts: a failed anchor search treats the whole stream as new
NewPostsGuessing(prev, new_stream) ==
    LET last_stream == LastStream(prev, new_stream) IN
    IF last_stream # None
    THEN SubSeq(new_stream, IndexOf(new_stream, last_stream) + 1, Len(new_stream))
    ELSE new_stream

\* variant of NewPosts: with an anchor, everything fetched is dispatched
NewPostsWholeStream(prev, new_stream) ==
    IF LastStream(prev, new_stream) # None THEN new_stream ELSE <<>>

\* variant of NewPosts: a poll with an empty snapshot dispatches what it fetched
NewPostsOnEmptySnapshot(prev, new_stream) ==
    LET last_stream == LastStream(prev, new_stream) IN
    IF prev = <<>> THEN new_stream
    ELSE IF last_stream # None
    THEN SubSeq(new_stream, IndexOf(new_stream, last_stream) + 1, Len(new_stream))
    ELSE <<>>

\* topic_model.py 87-90: new_stream[new_stream.index(last_stream) + 1:], or nothing
NewPosts(prev, new_stream) ==
    LET last_stream == LastStream(prev, new_stream) IN
    IF last_stream # None
    THEN SubSeq(new_stream, IndexOf(new_stream, last_stream) + 1, Len(new_stream))
    ELSE <<>>

\* topic_model.py 93-94: one coroutine per new post, wrapped into tasks by gather
Routines(new_posts) ==
    [i \in 1..Len(new_posts) |-> [post_id |-> new_posts[i], st |-> "running"]]

\* variant of AfterGather: the loop awaits the gathered handlers
AfterGatherAwaited(new_posts) == IF new_posts # <<>> THEN "gather" ELSE "sleep"

\* topic_model.py 94: asyncio.gather(...) is not awaited; the loop goes on to
\* line 97 and to the sleep of line 100
AfterGather(new_posts) == "sleep"

\* ------------------------------------------------------------ watch loop
\* topic_model.py 70, 76-100: get_topic_details returns the forum's stream
\* new_stream; diff, dispatch, update, sleep
FetchSucceeds(new_stream) ==
    /\ wpc = "fetch"
    /\ LET new_posts == NewPosts(stream_list, new_stream)
       IN /\ Len(tasks) + Len(new_posts) <= MaxTasks
          /\ tasks' = tasks \o Routines(new_posts)
          /\ stream_list' = new_stream
          /\ wpc' = AfterGather(new_posts)
    /\ failures' = 0
    /\ topic_stream' = new_stream
    /\ UNCHANGED <<gateVars, restVars>>

\* history of a successful fetch: "bootstrap" when the old snapshot was empty,
\* "anchored" when one of its ids is in the fetched stream, "rotated" otherwise
PollFound ==
    IF stream_list = <<>> THEN "bootstrap"
    ELSE IF Range(stream_list) \cap Range(topic_stream') # {} THEN "anchored"
    ELSE "rotated"

RecordLastPoll ==
    /\ last_poll' = PollFound
    /\ UNCHANGED <<first_poll, removed_ids, skipped_ids>>

\* history of a successful fetch: the same, and the ids a poll with an empty
\* snapshot (topic_model.py 80-84, 97) took into the snapshot
RecordSkipped ==
    /\ last_poll' = PollFound
    /\ skipped_ids' = IF stream_list = <<>>
                      THEN skipped_ids \cup Range(topic_stream')
                      ELSE skipped_ids
    /\ UNCHANGED <<first_poll, removed_ids>>

\* history of a successful fetch: the first fetched sequence of the run
RecordFirstPoll ==
    /\ first_poll' = IF first_poll = NoPoll THEN topic_stream' ELSE first_poll
    /\ UNCHANGED <<last_poll, removed_ids, skipped_ids>>

\* variant of FetchRaises: the exception leaves the loop
FetchRaisesPropagates ==
    /\ wpc = "fetch"
    /\ failures < MaxFailures
    /\ failures' = failures + 1
    /\ wpc' = "terminated"
    /\ UNCHANGED <<stream_list, tasks, topic_stream, first_poll, last_poll>>
    /\ UNCHANGED <<removed_ids, skipped_ids>>
    /\ UNCHANGED <<gateVars, restVars>>

\* topic_model.py 71-74: get_topic_details raised; log, sleep(2), continue
FetchRaises ==
    /\ wpc = "fetch"
    /\ failures < MaxFailures
    /\ failures' = failures + 1
    /\ wpc' = "backoff"
    /\ UNCHANGED <<stream_list, tasks, topic_stream, first_poll, last_poll>>
    /\ UNCHANGED <<removed_ids, skipped_ids>>
    /\ UNCHANGED <<gateVars, restVars>>

\* topic_model.py 100: the poll sleep is over, next iteration
SleepDone ==
    /\ wpc = "sleep"
    /\ wpc' = "fetch"
    /\ UNCHANGED <<stream_list, tasks, topic_stream, first_poll, last_poll, failures>>
    /\ UNCHANGED <<removed_ids, skipped_ids>>
    /\ UNCHANGED <<gateVars, restVars>>

\* topic_model.py 73-74: the backoff sleep is over, `continue`
BackoffDone ==
    /\ wpc = "backoff"
    /\ wpc' = "fetch"
    /\ UNCHANGED <<stream_list, tasks, topic_stream, first_poll, last_poll, failures>>
    /\ UNCHANGED <<removed_ids, skipped_ids>>
    /\ UNCHANGED <<gateVars, restVars>>

\* a dispatched _new_post_routine returns
HandlerReturns(i) ==
    /\ i \in DOMAIN tasks
    /\ tasks[i].st = "running"
    /\ tasks' = [tasks EXCEPT ![i].st = "returned"]
    /\ UNCHANGED <<stream_list, wpc, topic_stream, first_poll, last_poll, failures>>
    /\ UNCHANGED <<removed_ids, skipped_ids>>
    /\ UNCHANGED <<gateVars, restVars>>

\* a dispatched _new_post_routine raises: gather(return_exceptions=False) stores
\* the exception in its (unawaited) future and leaves the sibling tasks alone
HandlerRaises(i) ==
    /\ i \in DOMAIN tasks
    /\ tasks[i].st = "running"
    /\ tasks' = [tasks EXCEPT ![i].st = "raised"]
    /\ UNCHANGED <<stream_list, wpc, topic_stream, first_poll, last_poll, failures>>
    /\ UNCHANGED <<removed_ids, skipped_ids>>
    /\ UNCHANGED <<gateVars, restVars>>

\* ----------------------------------------------------------- environment
\* the forum: a fresh post is appended to the stream, nothing else changes
PostAppended(id) ==
    /\ id \in Ids \ Range(topic_stream)
    /\ Len(topic_stream) < MaxLen
    /\ topic_stream' = Append(topic_stream, id)
    /\ UNCHANGED <<stream_list, wpc, tasks, first_poll, last_poll, failures>>
    /\ UNCHANGED <<removed_ids, skipped_ids>>
    /\ UNCHANGED <<gateVars, restVars>>

\* `s` without the id x, the order of the others kept
Without(s, x) == SelectSeq(s, LAMBDA y : y # x)

\* the forum numbers its posts upwards: id is above every id in use so far
IsNewest(id) == \A x \in Range(topic_stream) \cup removed_ids : x < id

\* `s`, sorted upwards, with x put in at its place
SortedInsert(s, x) ==
    LET k == Cardinality({i \in DOMAIN s : s[i] < x})
    IN SubSeq(s, 1, k) \o <<x>> \o SubSeq(s, k + 1, Len(s))

\* the forum: a deleted post is restored and is back at its place in the stream
PostRestored(id) ==
    /\ id \in removed_ids
    /\ Len(topic_stream) < MaxLen
    /\ topic_stream' = SortedInsert(topic_stream, id)
    /\ removed_ids' = removed_ids \ {id}
    /\ UNCHANGED <<stream_list, wpc, tasks, first_poll, last_poll, failures, skipped_ids>>
    /\ UNCHANGED <<gateVars, restVars>>

\* the forum: a post is deleted from the stream; its id is not used again
PostRemoved(id) ==
    /\ id \in Range(topic_stream)
    /\ topic_stream' = Without(topic_stream, id)
    /\ removed_ids' = removed_ids \cup {id}
    /\ UNCHANGED <<stream_list, wpc, tasks, first_poll, last_poll, failures, skipped_ids>>
    /\ UNCHANGED <<gateVars, restVars>>


\* ========================================================= the gateway
\* the plain calls of _rate_limited_request (get_topic_details, reply_to_post, ...)
Requests == 1..NumRequests

\* the create() calls; each yields at most one instance
Creators == 1..NumCreators

\* the call of _rate_limited_request made by _update_cookies inside create() k
BootCall(k) == NumRequests + k

Calls == 1..(NumRequests + NumCreators)

IsBootstrap(c) == c > NumRequests

Creator(c) == c - NumRequests

\* a future whose result was set when it was made (shuiyuan_model.py 76-77, 145-146);
\* every other future is the next_future of a call and is named by that call
ResolvedFuture == -1

\* future.done()
Done(f) == f = ResolvedFuture \/ f \in fut_done

\* shuiyuan_model.py 85: `_shared_session is not None and not _shared_session.closed`
SessionOpen == shared_session # None /\ shared_session \notin closed_sessions

\* shuiyuan_model.py 155-156
WaitTime == request_interval - (clock - last_request_ts)

\* variant of WaitFor: the caller does not wait for the previous ticket
WaitForNothing == ResolvedFuture

\* shuiyuan_model.py 143-146: the ticket this caller waits for
WaitFor == IF request_chain = None THEN ResolvedFuture ELSE request_chain

\* shuiyuan_model.py 161-162: getattr on the session and the HTTP call; without
\* a usable session the call raises before anything is sent
IssueOutcome == IF SessionOpen THEN "http" ELSE "raised"

\* shuiyuan_model.py 155-162: what a caller does once its turn has come
TurnOutcome == IF WaitTime > 0 THEN "cooldown" ELSE IssueOutcome

\* shuiyuan_model.py 151-162: `await wait_for` on a done future does not suspend
EnterOutcome(f) == IF Done(f) THEN TurnOutcome ELSE "waiting"

RpcAfter(c, o) == [rpc EXCEPT ![c] = o]

\* shuiyuan_model.py 157-158: asyncio.sleep(wait_time)
WakeAfter(c, o) ==
    [wake EXCEPT ![c] = IF o = "cooldown" THEN clock + WaitTime ELSE 0]

IssuedAfter(c, o) == IF o = "http" THEN Append(issued, c) ELSE issued

Min(a, b) == IF a < b THEN a ELSE b

\* history of the HTTP calls: when the latest was issued and how close two
\* consecutive ones came (gaps of request_interval or more count as request_interval)
RecordIssue(o) ==
    /\ issued_at' = IF o = "http" THEN clock ELSE issued_at
    /\ closest' = IF o = "http" /\ issued # <<>>
                  THEN Min(closest, clock - issued_at)
                  ELSE closest

\* variant of DoneAfter: the successor is signalled only after a response
DoneAfterResponseOnly(c, o) == IF o = "returned" THEN fut_done \cup {c} ELSE fut_done

\* shuiyuan_model.py 167-170: finally, set the result of next_future
DoneAfter(c, o) == IF o \in {"raised", "returned"} THEN fut_done \cup {c} ELSE fut_done

\* variant of LastRequestTsAfter: the timestamp is also taken when the call raised
LastRequestTsAlways(o) == IF o \in {"raised", "returned"} THEN clock ELSE last_request_ts

\* shuiyuan_model.py 162-166: the timestamp is taken after a response only
LastRequestTsAfter(o) == IF o = "returned" THEN clock ELSE last_request_ts

\* variant of CpcAfter: a bootstrap response without CSRF token is accepted
CpcAfterTokenIgnored(c, o, token) ==
    IF IsBootstrap(c) /\ o \in {"raised", "returned"}
    THEN [cpc EXCEPT ![Creator(c)] = IF o = "returned" THEN "created" ELSE "failed"]
    ELSE cpc

\* shuiyuan_model.py 104-105, 114-128, 64-67: how the end of the bootstrap call
\* continues in create(): an exception or a missing CSRF token propagates, a
\* token completes create()
CpcAfter(c, o, token) ==
    IF IsBootstrap(c) /\ o \in {"raised", "returned"}
    THEN [cpc EXCEPT ![Creator(c)] = IF o = "returned" /\ token THEN "created" ELSE "failed"]
    ELSE cpc

\* shuiyuan_model.py 83: leaving `async with` releases the lock on every path
LockAfter(c, o) ==
    IF IsBootstrap(c) /\ o \in {"raised", "returned"} THEN None ELSE lock_holder

\* shuiyuan_model.py 66
ActiveAfter(c, o, token) ==
    IF IsBootstrap(c) /\ o = "returned" /\ token
    THEN active_instances + 1 ELSE active_instances

\* a call of _rate_limited_request moves to position o
CallMoves(c, o, token) ==
    /\ rpc' = RpcAfter(c, o)
    /\ wake' = WakeAfter(c, o)
    /\ issued' = IssuedAfter(c, o)
    /\ RecordIssue(o)
    /\ fut_done' = DoneAfter(c, o)
    /\ last_request_ts' = LastRequestTsAfter(o)
    /\ cpc' = CpcAfter(c, o, token)
    /\ lock_holder' = LockAfter(c, o)
    /\ active_instances' = ActiveAfter(c, o, token)

\* shuiyuan_model.py 135-162: a plain call enters _rate_limited_request
RequestEnters(c) ==
    /\ c \in Requests
    /\ rpc[c] = "idle"
    /\ IF shared_session = None
       THEN /\ rpc' = [rpc EXCEPT ![c] = "rejected"]
            /\ UNCHANGED <<wait_for, request_chain, entered, wake, issued, issued_at,
                           closest, fut_done>>
       ELSE LET f == WaitFor
                o == EnterOutcome(f)
            IN /\ wait_for' = [wait_for EXCEPT ![c] = f]
               /\ request_chain' = c
               /\ entered' = Append(entered, c)
               /\ rpc' = RpcAfter(c, o)
               /\ wake' = WakeAfter(c, o)
               /\ issued' = IssuedAfter(c, o)
               /\ RecordIssue(o)
               /\ fut_done' = DoneAfter(c, o)
    /\ UNCHANGED <<shared_session, closed_sessions, sessions_made, lock_holder,
                   lock_waiters, last_request_ts, active_instances, clock, cpc>>
    /\ UNCHANGED <<watchVars, restVars>>

\* shuiyuan_model.py 151-162: the awaited ticket is done, the caller takes its turn
TurnGranted(c) ==
    /\ c \in Calls
    /\ rpc[c] = "waiting"
    /\ Done(wait_for[c])
    /\ CallMoves(c, TurnOutcome, FALSE)
    /\ UNCHANGED <<shared_session, closed_sessions, sessions_made, lock_waiters,
                   request_chain, clock, wait_for, entered>>
    /\ UNCHANGED <<watchVars, restVars>>

\* shuiyuan_model.py 158-162: the cooldown sleep is over, the HTTP call is made
CooldownDone(c) ==
    /\ c \in Calls
    /\ rpc[c] = "cooldown"
    /\ clock >= wake[c]
    /\ CallMoves(c, IssueOutcome, FALSE)
    /\ UNCHANGED <<shared_session, closed_sessions, sessions_made, lock_waiters,
                   request_chain, clock, wait_for, entered>>
    /\ UNCHANGED <<watchVars, restVars>>

\* shuiyuan_model.py 162-170: the HTTP call returns a response (of any status);
\* token tells whether the bootstrap response carries a CSRF token
HttpReturns(c, token) ==
    /\ c \in Calls
    /\ rpc[c] = "http"
    /\ IsBootstrap(c) \/ token
    /\ CallMoves(c, "returned", token)
    /\ UNCHANGED <<shared_session, closed_sessions, sessions_made, lock_waiters,
                   request_chain, clock, wait_for, entered>>
    /\ UNCHANGED <<watchVars, restVars>>

\* shuiyuan_model.py 162, 167-170: the HTTP call raises
HttpRaises(c) ==
    /\ c \in Calls
    /\ rpc[c] = "http"
    /\ CallMoves(c, "raised", FALSE)
    /\ UNCHANGED <<shared_session, closed_sessions, sessions_made, lock_waiters,
                   request_chain, clock, wait_for, entered>>
    /\ UNCHANGED <<watchVars, restVars>>

\* shuiyuan_model.py 74-78: _ensure_locks makes a resolved future when there is none
EnsuredChain == IF request_chain = None THEN ResolvedFuture ELSE request_chain

\* shuiyuan_model.py 83-105, 64-67: create() k is inside the lock
EnsureSharedSession(k, cookie_file) ==
    IF SessionOpen
    THEN /\ cpc' = [cpc EXCEPT ![k] = "created"]
         /\ active_instances' = active_instances + 1
         /\ request_chain' = EnsuredChain
         /\ UNCHANGED <<shared_session, sessions_made, lock_holder, rpc, wait_for,
                        wake, entered, issued, issued_at, closest>>
    ELSE IF ~cookie_file
    THEN /\ cpc' = [cpc EXCEPT ![k] = "failed"]
         /\ request_chain' = EnsuredChain
         /\ UNCHANGED <<shared_session, sessions_made, lock_holder, active_instances,
                        rpc, wait_for, wake, entered, issued, issued_at, closest>>
    ELSE LET c == BootCall(k)
             f == EnsuredChain
             o == IF Done(f) THEN (IF WaitTime > 0 THEN "cooldown" ELSE "http")
                  ELSE "waiting"
         IN /\ sessions_made' = sessions_made + 1
            /\ shared_session' = sessions_made + 1
            /\ lock_holder' = k
            /\ cpc' = [cpc EXCEPT ![k] = "bootstrap"]
            /\ wait_for' = [wait_for EXCEPT ![c] = f]
            /\ request_chain' = c
            /\ entered' = Append(entered, c)
            /\ rpc' = RpcAfter(c, o)
            /\ wake' = WakeAfter(c, o)
            /\ issued' = IssuedAfter(c, o)
            /\ RecordIssue(o)
            /\ UNCHANGED active_instances

\* shuiyuan_model.py 52-67, 69-78, 83: create() is called; it goes on at once
\* when the lock is free and nobody queues for it, and queues otherwise (the
\* cookie file is then looked for when the lock is acquired, so cookie_file is
\* not read here)
Create(k, cookie_file) ==
    /\ k \in Creators
    /\ cpc[k] = "idle"
    /\ IF lock_holder = None /\ lock_waiters = <<>>
       THEN /\ EnsureSharedSession(k, cookie_file)
            /\ UNCHANGED lock_waiters
       ELSE /\ cookie_file
            /\ cpc' = [cpc EXCEPT ![k] = "lock_wait"]
            /\ lock_waiters' = Append(lock_waiters, k)
            /\ request_chain' = EnsuredChain
            /\ UNCHANGED <<shared_session, sessions_made, lock_holder, active_instances,
                           rpc, wait_for, wake, entered, issued, issued_at, closest>>
    /\ UNCHANGED <<closed_sessions, fut_done, last_request_ts, clock>>
    /\ UNCHANGED <<watchVars, restVars>>

\* shuiyuan_model.py 83: the lock was released and the first queued create() gets it
LockAcquired(k, cookie_file) ==
    /\ k \in Creators
    /\ cpc[k] = "lock_wait"
    /\ lock_holder = None
    /\ lock_waiters # <<>> /\ Head(lock_waiters) = k
    /\ lock_waiters' = Tail(lock_waiters)
    /\ EnsureSharedSession(k, cookie_file)
    /\ UNCHANGED <<closed_sessions, fut_done, last_request_ts, clock>>
    /\ UNCHANGED <<watchVars, restVars>>

\* variant of InstancesAfterClose: close() forgets to count down
InstancesAfterCloseKept == active_instances

\* shuiyuan_model.py 414-415: the count goes down by one, never below zero
InstancesAfterClose ==
    IF active_instances > 0 THEN active_instances - 1 ELSE active_instances

\* variant of WithLockRaises: the lock is entered (as with `async with`)
WithLockEntered == FALSE

\* shuiyuan_model.py 423: `with` on an asyncio.Lock; the lock has no __enter__,
\* the statement raises TypeError and nothing below it runs
WithLockRaises == TRUE

\* shuiyuan_model.py 413-430: _decrement_instance_and_maybe_close, called by
\* close() of the instance of create() k
DecrementInstanceAndMaybeClose(k) ==
    /\ LET n == InstancesAfterClose
       IN /\ active_instances' = n
          /\ IF n # 0
             THEN /\ cpc' = [cpc EXCEPT ![k] = "closed"]
                  /\ UNCHANGED <<shared_session, closed_sessions, request_chain,
                                 last_request_ts>>
             ELSE IF WithLockRaises
             THEN /\ cpc' = [cpc EXCEPT ![k] = "close_raised"]
                  /\ UNCHANGED <<shared_session, closed_sessions, request_chain,
                                 last_request_ts>>
             ELSE /\ cpc' = [cpc EXCEPT ![k] = "closed"]
                  /\ closed_sessions' = IF SessionOpen
                                        THEN closed_sessions \cup {shared_session}
                                        ELSE closed_sessions
                  /\ shared_session' = None
                  /\ request_chain' = None
                  /\ last_request_ts' = 0
    /\ UNCHANGED <<sessions_made, lock_holder, lock_waiters, fut_done, clock, rpc,
                   wait_for, wake, entered, issued, issued_at, closest>>
    /\ UNCHANGED <<watchVars, restVars>>

\* shuiyuan_model.py 394-398: the first close() of the instance of create() k
Close(k) ==
    /\ k \in Creators
    /\ cpc[k] = "created"
    /\ DecrementInstanceAndMaybeClose(k)

\* shuiyuan_model.py 394-398, 406-410: close() (or leaving `async with`) on an
\* instance that was closed before; the instance keeps no record of it
CloseAgain(k) ==
    /\ k \in Creators
    /\ cpc[k] \in {"closed", "close_raised"}
    /\ DecrementInstanceAndMaybeClose(k)

\* shuiyuan_model.py 151-170: the task of plain call c is cancelled. While it
\* awaits its predecessor's ticket (line 152, before the `try`) the
\* CancelledError leaves _rate_limited_request at once and next_future is
\* never set; inside the `try` the `finally` block sets it
Cancelled(c) ==
    /\ c \in Requests
    /\ rpc[c] \in {"waiting", "cooldown", "http"}
    /\ rpc' = [rpc EXCEPT ![c] = "cancelled"]
    /\ wake' = [wake EXCEPT ![c] = 0]
    /\ fut_done' = IF rpc[c] = "waiting" THEN fut_done ELSE fut_done \cup {c}
    /\ UNCHANGED <<shared_session, closed_sessions, sessions_made, lock_holder,
                   lock_waiters, request_chain, last_request_ts, active_instances,
                   clock, cpc, wait_for, entered, issued, issued_at, closest>>
    /\ UNCHANGED <<watchVars, restVars>>

\* time.monotonic() advances
Tick ==
    /\ clock < MaxClock
    /\ clock' = clock + 1
    /\ UNCHANGED <<shared_session, closed_sessions, sessions_made, lock_holder,
                   lock_waiters, request_chain, fut_done, last_request_ts,
                   active_instances, cpc, rpc, wait_for, wake, entered, issued,
                   issued_at, closest>>
    /\ UNCHANGED <<watchVars, restVars>>

\* shuiyuan_model.py 38-43: the class attributes when the module is loaded
GateInit ==
    /\ shared_session = None
    /\ closed_sessions = {}
    /\ sessions_made = 0
    /\ lock_holder = None
    /\ lock_waiters = <<>>
    /\ request_chain = None
    /\ fut_done = {}
    /\ last_request_ts = 0
    /\ active_instances = 0
    /\ clock = 0
    /\ cpc = [k \in Creators |-> "idle"]
    /\ rpc = [c \in Calls |-> "idle"]
    /\ wait_for = [c \in Calls |-> None]
    /\ wake = [c \in Calls |-> 0]
    /\ entered = <<>>
    /\ issued = <<>>
    /\ issued_at = None
    /\ closest = request_interval

\* --------------------------------------------------- the bots' handlers
\* StockTopicModel and RecordTopicModel watch a topic, MentionModel watches the
\* actions that mention the bot
TopicBots == {"stock", "record"}
Bots == TopicBots \cup {"mention"}

\* texts are sequences of fragments: the hidden marker, a random nonce, a
\* command keyword (e.g. "【A股】"), a well-formed stock code, any other words
AutoReplyTag == "tag"
Nonce == "nonce"
Keyword == "kw"
StockCode == "code"
Words == "words"

\* PostDetails.raw is None / local text is None
NoRaw == <<"None">>
NoText == <<"None">>

\* what users post: nothing readable, small talk, a well-formed command, a
\* malformed command, and quotations of a bot reply with and without a command
UserRaws ==
    {NoRaw, <<Words>>, <<Keyword, StockCode>>, <<Keyword, Words>>,
     <<Words, Nonce, AutoReplyTag>>, <<Keyword, StockCode, Nonce, AutoReplyTag>>}

\* user_action_model.py 45-57: base, a 20-character nonce comment, the marker
MakeUniqueReply(base) == base \o <<Nonce, AutoReplyTag>>

\* variant of IsAutoReply: the marker is never looked for
IsAutoReplyNever(raw) == FALSE

\* stock_topic_model.py 259, record_topic_model.py 477, mention_model.py 133:
\* `auto_reply_tag in post_details.raw`
IsAutoReply(raw) == Contains(raw, AutoReplyTag)

\* stock_topic_model.py 167: the reply to a malformed stock code; it names the
\* keyword twice and carries neither nonce nor marker
FormatErrorText == <<Words, Keyword, Words, Keyword, StockCode, Words>>

\* stock_topic_model.py 161: the keyword is removed everywhere and the first 8
\* characters of what is left are taken as the code
CodeOf(raw) ==
    LET rest == SelectSeq(raw, LAMBDA t : t # Keyword)
    IN IF rest = <<>> THEN "" ELSE rest[1]

\* stock_topic_model.py 148-235: o is how the chart download and the quote
\* lookup went
StockCondition(raw, o) ==
    IF ~Contains(raw, Keyword) THEN NoText
    ELSE IF CodeOf(raw) # StockCode THEN FormatErrorText
    ELSE IF o \in {"image_failed", "no_image"} THEN MakeUniqueReply(<<Words>>)
    ELSE MakeUniqueReply(<<Words>>) \o <<Words>>

\* record_topic_model.py 480-520, mention_model.py 136-145: the first keyword
\* condition that matches answers through _make_unique_reply
CommandCondition(raw) ==
    IF ~Contains(raw, Keyword) THEN NoText ELSE MakeUniqueReply(<<Words>>)

ConditionOutcomes == {"image_failed", "no_image", "data", "data_failed"}

ConditionText(b, raw, o) ==
    IF b = "stock" THEN StockCondition(raw, o) ELSE CommandCondition(raw)

\* variant of ErrorText: the error path prepares no reply
ErrorTextNone(b) == NoText

\* stock_topic_model.py 269-273, record_topic_model.py 527-530,
\* mention_model.py 152-155: the generic error reply
ErrorText(b) == MakeUniqueReply(<<Words>>)

\* variant of AfterStatus: a 429 answer is taken for success
AfterStatus429Accepted(status) ==
    IF status \in {200, 429} THEN "returned" ELSE "raised"

\* shuiyuan_model.py 198-204: what reply_to_post does with the response
AfterStatus(status) ==
    IF status = 200 THEN "returned"
    ELSE IF status = 429 THEN "reply_sleep"
    ELSE "raised"

Statuses == {200, 429, 500}

\* the locals and histories of a fresh invocation
FreshInvocation ==
    /\ text' = NoText
    /\ post_details' = FALSE
    /\ reply_calls' = 0
    /\ conditions_run' = 0
    /\ processing_raised' = FALSE
    /\ posts_sent' = 0
    /\ got429' = 0
    /\ sleeps' = 0
    /\ raised_by' = "none"

\* topic_model.py 93-94, user_action_model.py 107-110: the watcher dispatches
\* the handler of bot b on a post written by a user
HandlerStarts(b, raw) ==
    /\ hpc \in {"idle", "returned", "raised"}
    /\ bot' = b
    /\ post_raw' = raw
    /\ from_bot' = FALSE
    /\ self_replies' = 0
    /\ hpc' = "get_post"
    /\ FreshInvocation
    /\ UNCHANGED <<watchVars, gateVars, schedVars, actVars, moreVars>>

\* the reply just posted shows up in the watched topic as a new post, and the
\* watcher dispatches the handler on it
ReplyAppears ==
    /\ hpc = "returned"
    /\ bot \in TopicBots
    /\ reply_calls = 1
    /\ self_replies < MaxSelfReplies
    /\ post_raw' = text
    /\ from_bot' = TRUE
    /\ hpc' = "get_post"
    /\ FreshInvocation
    /\ UNCHANGED <<bot, self_replies>>
    /\ UNCHANGED <<watchVars, gateVars, schedVars, actVars, moreVars>>

\* the handler calls reply_to_post (the `finally` block), which sends its
\* first POST
CallsReplyToPost ==
    /\ hpc' = "reply"
    /\ reply_calls' = reply_calls + 1
    /\ posts_sent' = 1
    /\ self_replies' = IF from_bot THEN self_replies + 1 ELSE self_replies
    /\ UNCHANGED <<got429, sleeps, raised_by>>

\* stock 251-260, record 455-478, mention 110-134: get_post_details returned;
\* a post without raw or with the marker ends the handler with text None
GetPostDetailsReturns ==
    /\ hpc = "get_post"
    /\ post_details' = TRUE
    /\ hpc' = IF post_raw = NoRaw \/ IsAutoReply(post_raw) THEN "returned"
              ELSE "conditions"
    /\ UNCHANGED <<bot, post_raw, from_bot, text, reply_calls, conditions_run,
                   processing_raised, posts_sent, got429, sleeps, raised_by,
                   self_replies>>
    /\ UNCHANGED <<watchVars, gateVars, schedVars, actVars, moreVars>>

\* get_post_details raised. record 467-473, mention 123-129: logged, return.
\* stock 265-280: the error text is set and the `finally` block reads
\* post_details.post_number of the unbound local: UnboundLocalError
GetPostDetailsRaises ==
    /\ hpc = "get_post"
    /\ IF bot = "stock"
       THEN /\ text' = ErrorText(bot)
            /\ hpc' = "raised"
            /\ raised_by' = "unbound_local"
       ELSE /\ hpc' = "returned"
            /\ UNCHANGED <<text, raised_by>>
    /\ UNCHANGED <<bot, post_raw, from_bot, post_details, reply_calls,
                   conditions_run, processing_raised, posts_sent, got429, sleeps,
                   self_replies>>
    /\ UNCHANGED <<watchVars, gateVars, schedVars, actVars, moreVars>>

\* stock 264, 274-280, record 480-520, 531-538, mention 136-145, 156-163: the
\* keyword conditions returned; a text that is not None is replied
ConditionsReturn(o) ==
    /\ hpc = "conditions"
    /\ conditions_run' = conditions_run + 1
    /\ text' = ConditionText(bot, post_raw, o)
    /\ IF text' = NoText
       THEN /\ hpc' = "returned"
            /\ UNCHANGED <<reply_calls, posts_sent, got429, sleeps, raised_by,
                           self_replies>>
       ELSE CallsReplyToPost
    /\ UNCHANGED <<bot, post_raw, from_bot, post_details, processing_raised>>
    /\ UNCHANGED <<watchVars, gateVars, schedVars, actVars, moreVars>>

\* record 521-538, mention 146-163: a keyword condition raised (database or
\* language-model failure); the generic error text is replied. Every failure
\* inside _stock_condition is caught there, so the stock bot never gets here
ConditionsRaise ==
    /\ hpc = "conditions"
    /\ bot # "stock"
    /\ conditions_run' = conditions_run + 1
    /\ processing_raised' = TRUE
    /\ text' = ErrorText(bot)
    /\ IF text' = NoText
       THEN /\ hpc' = "returned"
            /\ UNCHANGED <<reply_calls, posts_sent, got429, sleeps, raised_by,
                           self_replies>>
       ELSE CallsReplyToPost
    /\ UNCHANGED <<bot, post_raw, from_bot, post_details>>
    /\ UNCHANGED <<watchVars, gateVars, schedVars, actVars, moreVars>>

\* shuiyuan_model.py 194-204: the POST got a response. 200 ends the call, 429
\* makes it sleep, any other status raises out of reply_to_post and, the call
\* standing in the handler's `finally` block, out of the handler
ReplyResponse(status) ==
    /\ hpc = "reply"
    /\ status = 429 => got429 < MaxRetries
    /\ hpc' = AfterStatus(status)
    /\ got429' = IF status = 429 THEN got429 + 1 ELSE got429
    /\ sleeps' = IF hpc' = "reply_sleep" THEN sleeps + 1 ELSE sleeps
    /\ raised_by' = IF hpc' = "raised" THEN "status" ELSE raised_by
    /\ UNCHANGED <<bot, post_raw, from_bot, text, post_details, reply_calls,
                   conditions_run, processing_raised, posts_sent, self_replies>>
    /\ UNCHANGED <<watchVars, gateVars, schedVars, actVars, moreVars>>

\* shuiyuan_model.py 202, 194-197: the sleep is over, the POST is sent again
ReplySleepDone ==
    /\ hpc = "reply_sleep"
    /\ hpc' = "reply"
    /\ posts_sent' = posts_sent + 1
    /\ UNCHANGED <<bot, post_raw, from_bot, text, post_details, reply_calls,
                   conditions_run, processing_raised, got429, sleeps, raised_by,
                   self_replies>>
    /\ UNCHANGED <<watchVars, gateVars, schedVars, actVars, moreVars>>

\* shuiyuan_model.py 135-170, 195: _rate_limited_request raised (no session,
\* or the HTTP call failed); nothing catches it in reply_to_post or the handler
ReplyRequestRaises ==
    /\ hpc = "reply"
    /\ hpc' = "raised"
    /\ raised_by' = "request"
    /\ UNCHANGED <<bot, post_raw, from_bot, text, post_details, reply_calls,
                   conditions_run, processing_raised, posts_sent, got429, sleeps,
                   self_replies>>
    /\ UNCHANGED <<watchVars, gateVars, schedVars, actVars, moreVars>>

\* no handler has been dispatched yet
BotInit ==
    /\ bot = "stock"
    /\ hpc = "idle"
    /\ post_raw = NoRaw
    /\ from_bot = FALSE
    /\ text = NoText
    /\ post_details = FALSE
    /\ reply_calls = 0
    /\ conditions_run = 0
    /\ processing_raised = FALSE
    /\ posts_sent = 0
    /\ got429 = 0
    /\ sleeps = 0
    /\ raised_by = "none"
    /\ self_replies = 0

\* ------------------------------------- scheduled jobs beside the watchers
\* the watch loops of main() and one cron job of a topic model, all sending
\* their requests through _rate_limited_request; the chain of futures is kept
\* here as the queue of its callers in ticket order, the head being the one
\* past the gate
Watchers == 1..NumWatchers

\* the caller of _rate_limited_request that is the job's reply_to_post
Job == 0

\* variant of JobMayFire: the job is held back while a request is in the gateway
JobMayFireWhenGateFree ==
    scheduler_running /\ job_registered /\ job_pc = "idle" /\ gate_queue = <<>>

\* topic_model.py 116-130: the cron trigger is due on a started scheduler; the
\* coroutine is started as a task of its own on the event loop (one instance
\* of a job at a time)
JobMayFire == scheduler_running /\ job_registered /\ job_pc = "idle"

\* variant of RegisteredAfterError: a job that raised is removed
RegisteredAfterErrorRemoved == FALSE

\* topic_model.py 116-123: the job is added with a cron trigger, so it stays
\* in the scheduler after a run, whatever the run's outcome
RegisteredAfterError == TRUE

\* a _daily_routine execution has started and not ended
JobInProgress == job_pc # "idle"

\* shuiyuan_model.py 144-149: the caller takes its ticket behind all earlier ones
TicketTaken(c) == gate_queue' = Append(gate_queue, c)

\* shuiyuan_model.py 151-170: the caller is past the gate (no earlier ticket
\* is open) and its HTTP call ends; the `finally` block lets the next one in
PastGate(c) == gate_queue # <<>> /\ Head(gate_queue) = c

TicketClosed == gate_queue' = Tail(gate_queue)

\* topic_model.py 70-74, 99: a watcher starts an iteration with get_topic_details
PollEnters(w) ==
    /\ poll_pc[w] \in {"start", "sleep", "backoff"}
    /\ poll_pc' = [poll_pc EXCEPT ![w] = "in_gate"]
    /\ TicketTaken(w)
    /\ UNCHANGED <<job_pc, job_registered, scheduler_running, job_fires, job_errors,
                   polled_during_job, job_429>>
    /\ UNCHANGED <<watchVars, gateVars, botVars, actVars, moreVars>>

\* topic_model.py 74-97: the fetch returned, the iteration is completed
PollReturns(w) ==
    /\ poll_pc[w] = "in_gate"
    /\ PastGate(w)
    /\ poll_pc' = [poll_pc EXCEPT ![w] = "sleep"]
    /\ TicketClosed
    /\ polled_during_job' = (polled_during_job \/ JobInProgress)
    /\ UNCHANGED <<job_pc, job_registered, scheduler_running, job_fires, job_errors,
                   job_429>>
    /\ UNCHANGED <<watchVars, gateVars, botVars, actVars, moreVars>>

\* topic_model.py 75-79, 98-100: the fetch raised, the loop backs off
PollRaises(w) ==
    /\ poll_pc[w] = "in_gate"
    /\ PastGate(w)
    /\ poll_pc' = [poll_pc EXCEPT ![w] = "backoff"]
    /\ TicketClosed
    /\ UNCHANGED <<job_pc, job_registered, scheduler_running, job_fires, job_errors,
                   polled_during_job, job_429>>
    /\ UNCHANGED <<watchVars, gateVars, botVars, actVars, moreVars>>

\* topic_model.py 116-130: the scheduler starts _daily_routine
JobFires ==
    /\ JobMayFire
    /\ job_fires < MaxFires
    /\ job_pc' = "running"
    /\ job_fires' = job_fires + 1
    /\ polled_during_job' = FALSE
    /\ job_429' = 0
    /\ UNCHANGED <<job_registered, scheduler_running, job_errors, poll_pc, gate_queue>>
    /\ UNCHANGED <<watchVars, gateVars, botVars, actVars, moreVars>>

\* stock_topic_model.py 292-317, dog_topic_model.py 288-298: the text is
\* ready and reply_to_post sends its request
JobReplies ==
    /\ job_pc = "running"
    /\ job_pc' = "in_gate"
    /\ TicketTaken(Job)
    /\ UNCHANGED <<job_registered, scheduler_running, job_fires, job_errors, poll_pc,
                   polled_during_job, job_429>>
    /\ UNCHANGED <<watchVars, gateVars, botVars, actVars, moreVars>>

\* shuiyuan_model.py 198-199: the reply got 200, the job ends
JobReplyAccepted ==
    /\ job_pc = "in_gate"
    /\ PastGate(Job)
    /\ job_pc' = "idle"
    /\ TicketClosed
    /\ UNCHANGED <<job_registered, scheduler_running, job_fires, job_errors, poll_pc,
                   polled_during_job, job_429>>
    /\ UNCHANGED <<watchVars, gateVars, botVars, actVars, moreVars>>

\* shuiyuan_model.py 200-202: the reply got 429, reply_to_post sleeps
JobReplyLimited ==
    /\ job_pc = "in_gate"
    /\ PastGate(Job)
    /\ job_429 < MaxRetries
    /\ job_pc' = "retry_sleep"
    /\ job_429' = job_429 + 1
    /\ TicketClosed
    /\ UNCHANGED <<job_registered, scheduler_running, job_fires, job_errors, poll_pc,
                   polled_during_job>>
    /\ UNCHANGED <<watchVars, gateVars, botVars, actVars, moreVars>>

\* shuiyuan_model.py 194-197, 202: the sleep is over, the request is sent again
JobRetries ==
    /\ job_pc = "retry_sleep"
    /\ job_pc' = "in_gate"
    /\ TicketTaken(Job)
    /\ UNCHANGED <<job_registered, scheduler_running, job_fires, job_errors, poll_pc,
                   polled_during_job, job_429>>
    /\ UNCHANGED <<watchVars, gateVars, botVars, actVars, moreVars>>

\* the execution ends with an exception, which the scheduler's executor logs
JobEndsRaising ==
    /\ job_pc' = "idle"
    /\ job_errors' = job_errors + 1
    /\ job_registered' = RegisteredAfterError
    /\ UNCHANGED <<scheduler_running, job_fires, poll_pc, polled_during_job, job_429>>
    /\ UNCHANGED <<watchVars, gateVars, botVars, actVars, moreVars>>

\* tarot_topic_model.py 297-301: _daily_routine raises NotImplementedError
\* before any request
JobRaises ==
    /\ job_pc = "running"
    /\ JobEndsRaising
    /\ UNCHANGED gate_queue

\* stock_topic_model.py 315-317, shuiyuan_model.py 167-170, 203-204: the reply
\* in the `finally` block raises (failed request, or a status other than 200
\* and 429) and nothing in _daily_routine catches it
JobReplyRaises ==
    /\ job_pc = "in_gate"
    /\ PastGate(Job)
    /\ JobEndsRaising
    /\ TicketClosed

\* main.py 32-46: the jobs are added, the schedulers started, and the watch
\* loops gathered
SchedInit ==
    /\ job_pc = "idle"
    /\ job_registered = TRUE
    /\ scheduler_running = TRUE
    /\ job_fires = 0
    /\ job_errors = 0
    /\ poll_pc = [w \in Watchers |-> "start"]
    /\ polled_during_job = FALSE
    /\ job_429 = 0
    /\ gate_queue = <<>>

\* ------------------------------------------------- the user-action watcher
\* what get_actions returns: the post ids of the latest actions, newest first;
\* two actions may be on the same post
ActionStreams == UNION {[1..k -> Ids] : k \in 0..MaxActions}

\* user_action_model.py 95-98: scan reversed(new_stream) for the first id that
\* is NOT in stream_list
RECURSIVE ScanUnknown(_, _, _)
ScanUnknown(new_stream, k, prev) ==
    IF k = 0 THEN None
    ELSE IF ~Contains(prev, new_stream[k]) THEN new_stream[k]
    ELSE ScanUnknown(new_stream, k - 1, prev)

\* variant of NewActions: the slice of the topic watcher
NewActionsAsTopic(prev, new_stream) == NewPosts(prev, new_stream)

\* user_action_model.py 89-105: nothing while stream_list is empty; otherwise
\* action_details[:new_stream.index(last_stream) + 1], or nothing when every
\* id is known
NewActions(prev, new_stream) ==
    IF prev = <<>> THEN <<>>
    ELSE LET last_stream == ScanUnknown(new_stream, Len(new_stream), prev) IN
         IF last_stream # None
         THEN SubSeq(new_stream, 1, IndexOf(new_stream, last_stream))
         ELSE <<>>

\* user_action_model.py 75-78, 86-113: get_actions returned new_stream; the
\* handlers of the new actions are gathered (not awaited) and the snapshot is
\* replaced; the loop goes on at once
ActionFetchSucceeds(new_stream) ==
    /\ action_tasks' = NewActions(action_list, new_stream)
    /\ action_prev' = action_list
    /\ action_list' = new_stream
    /\ action_failures' = 0
    /\ action_yielded' = TRUE
    /\ UNCHANGED <<watchVars, gateVars, botVars, schedVars, moreVars>>

\* the ways get_actions raises: _rate_limited_request finds no shared session
\* (shuiyuan_model.py 137-138), or the HTTP call it awaited fails (162-163,
\* 268-276)
FetchFailures == {"no_session", "http_error"}

\* shuiyuan_model.py 137-138: the RuntimeError for a missing shared session is
\* raised before the first await of _rate_limited_request
Suspends(failure) == failure # "no_session"

\* user_action_model.py 79-84: get_actions raised; the exception is logged and
\* `continue` starts the next iteration, with no sleep in between
ActionFetchRaises(failure) ==
    /\ action_failures < MaxFailures
    /\ action_failures' = action_failures + 1
    /\ action_yielded' = Suspends(failure)
    /\ UNCHANGED <<action_list, action_tasks, action_prev>>
    /\ UNCHANGED <<watchVars, gateVars, botVars, schedVars, moreVars>>

\* user_action_model.py 27: stream_list = []
ActInit ==
    /\ action_list = <<>>
    /\ action_tasks = <<>>
    /\ action_prev = NoPoll
    /\ action_failures = 0
    /\ action_yielded = TRUE

\* ------------------------------------------------------- specifications
WatchInit ==
    /\ stream_list = <<>>
    /\ wpc = "fetch"
    /\ tasks = <<>>
    /\ topic_stream = <<>>
    /\ first_poll = NoPoll
    /\ last_poll = "none"
    /\ removed_ids = {}
    /\ skipped_ids = {}
    /\ failures = 0

\* ============================================== the HTTP operations
\* shuiyuan_model.py 107-128, 172-306: the methods of ShuiyuanModel that send
\* a request to the forum
Operations ==
    {"_update_cookies", "reply_to_post", "get_topic_details", "get_user_by_username",
     "get_post_details", "get_actions", "upload_image"}

\* no operation is in progress
NoOperation == "none"

\* variant of RequestPath: upload_image posts on the session itself
RequestPathUploadDirect ==
    [op \in Operations |->
        IF op = "upload_image" THEN "session" ELSE "_rate_limited_request"]

\* shuiyuan_model.py 114, 195-197, 213-215, 229-231, 251-253, 268-270,
\* 299-305: what each operation awaits to send its request
RequestPath == [op \in Operations |-> "_rate_limited_request"]

\* the HTTP call of the operation in progress, as http_calls records it
HttpCall(via) == [op |-> call_op, attempt |-> call_retries, via |-> via]

\* an operation is called and reaches the await that sends its request:
\* _rate_limited_request (shuiyuan_model.py 134-152) queues it
OperationCalled(op) ==
    /\ call_op = NoOperation
    /\ op \in Operations
    /\ call_op' = op
    /\ call_retries' = 0
    /\ IF RequestPath[op] = "_rate_limited_request"
       THEN call_pc' = "queued" /\ UNCHANGED http_calls
       ELSE /\ call_pc' = "http"
            /\ http_calls' =
                  http_calls \cup {[op |-> op, attempt |-> 0, via |-> RequestPath[op]]}
    /\ UNCHANGED <<watchVars, gateVars, botVars, schedVars, actVars, tagVars>>

\* shuiyuan_model.py 152-163: the turn has come and the cooldown is over;
\* _rate_limited_request issues the HTTP call on the shared session
GateIssues ==
    /\ call_pc = "queued"
    /\ call_pc' = "http"
    /\ http_calls' = http_calls \cup {HttpCall("_rate_limited_request")}
    /\ UNCHANGED <<call_op, call_retries>>
    /\ UNCHANGED <<watchVars, gateVars, botVars, schedVars, actVars, tagVars>>

\* shuiyuan_model.py 192-204: reply_to_post got 429, sleeps a second and
\* sends the request again
ReplyRetried ==
    /\ call_pc = "http"
    /\ call_op = "reply_to_post"
    /\ call_retries < MaxRetries
    /\ call_retries' = call_retries + 1
    /\ IF RequestPath[call_op] = "_rate_limited_request"
       THEN call_pc' = "queued" /\ UNCHANGED http_calls
       ELSE /\ call_pc' = "http"
            /\ http_calls' =
                  http_calls \cup {[op |-> call_op, attempt |-> call_retries + 1,
                                    via |-> RequestPath[call_op]]}
    /\ UNCHANGED call_op
    /\ UNCHANGED <<watchVars, gateVars, botVars, schedVars, actVars, tagVars>>

\* the operation returns or raises on its response (or on the exception of
\* its request)
OperationEnds ==
    /\ call_pc = "http"
    /\ call_op' = NoOperation
    /\ call_pc' = "idle"
    /\ call_retries' = 0
    /\ UNCHANGED http_calls
    /\ UNCHANGED <<watchVars, gateVars, botVars, schedVars, actVars, tagVars>>

CallInit ==
    /\ call_op = NoOperation
    /\ call_pc = "idle"
    /\ call_retries = 0
    /\ http_calls = {}

NextCalls ==
    \/ \E op \in Operations : OperationCalled(op)
    \/ GateIssues
    \/ ReplyRetried
    \/ OperationEnds

\* ================================================= _make_unique_reply
\* user_action_model.py 38-41: the alphabet of _generate_random_string
\* (62 symbols in the program)
Alphabet == 1..AlphabetSize

\* user_action_model.py 37-42: random.sample(alphabet, k = length) draws
\* `length` symbols without replacement, in any order
GenerateRandomString(length) ==
    {n \in [1..length -> Alphabet] : \A i, j \in 1..length : i # j => n[i] # n[j]}

\* the bodies passed to _make_unique_reply
Bodies == {<<Words>>, <<Keyword, Words>>}

\* variant of UniqueReply: the comment does not hold the nonce drawn
UniqueReplyNoNonce(base, nonce) ==
    [body |-> base, comment |-> <<>>, marker |-> AutoReplyTag]

\* user_action_model.py 53-57: f"{base}\n\n<!-- {nonce} -->\n{auto_reply_tag}":
\* the body, the nonce inside a comment, the marker
UniqueReply(base, nonce) ==
    [body |-> base, comment |-> nonce, marker |-> AutoReplyTag]

\* user_action_model.py 45-57: one call of _make_unique_reply; the program
\* draws a nonce of 20 symbols
MakeUniqueReplyCalled(base, nonce) ==
    /\ Len(tag_calls) < MaxReplies
    /\ nonce \in GenerateRandomString(NonceLen)
    /\ tag_calls' = Append(tag_calls,
                           [base |-> base, nonce |-> nonce, text |-> UniqueReply(base, nonce)])
    /\ UNCHANGED <<watchVars, gateVars, botVars, schedVars, actVars, callVars>>

TagInit == tag_calls = <<>>

NextTag ==
    \E base \in Bodies : \E nonce \in GenerateRandomString(NonceLen) :
        MakeUniqueReplyCalled(base, nonce)

Init == WatchInit /\ GateInit /\ BotInit /\ SchedInit /\ ActInit /\ CallInit /\ TagInit

\* the steps of the loop other than a successful fetch
WatchStep ==
    \/ FetchRaises
    \/ SleepDone
    \/ BackoffDone

\* the dispatched handlers run to their end, concurrently with the loop
HandlerStep ==
    \/ \E i \in 1..MaxTasks : HandlerReturns(i)
    \/ \E i \in 1..MaxTasks : HandlerRaises(i)

\* the watch loop against a forum whose stream is, at each fetch, any sequence
\* of distinct ids
Next ==
    \/ \E s \in Streams : FetchSucceeds(s) /\ RecordLastPoll
    \/ WatchStep

Spec == Init /\ [][Next]_vars

\* the watch loop and its handlers against a forum whose stream only grows at
\* the end
NextAppend ==
    \/ FetchSucceeds(topic_stream) /\ RecordFirstPoll
    \/ WatchStep
    \/ HandlerStep
    \/ \E id \in Ids : PostAppended(id)

SpecAppend == Init /\ [][NextAppend]_vars

\* the watch loop against a forum whose posts are deleted and whose new posts
\* are appended with ids never used before
NextRemove ==
    \/ FetchSucceeds(topic_stream) /\ RecordSkipped
    \/ WatchStep
    \/ \E id \in Ids \ removed_ids : PostAppended(id)
    \/ \E id \in Ids : PostRemoved(id)

SpecRemove == Init /\ [][NextRemove]_vars

\* the successful polls of the watch loop against a forum that numbers its
\* posts upwards, deletes posts and restores deleted posts
NextRestore ==
    \/ FetchSucceeds(topic_stream) /\ RecordSkipped
    \/ SleepDone
    \/ \E id \in Ids : IsNewest(id) /\ PostAppended(id)
    \/ \E id \in Ids : PostRemoved(id)
    \/ \E id \in Ids : PostRestored(id)

SpecRestore == Init /\ [][NextRestore]_vars

\* create(), close() and requests of any tasks, in any interleaving
NextGate ==
    \/ \E k \in Creators, cookie_file \in BOOLEAN : Create(k, cookie_file)
    \/ \E k \in Creators, cookie_file \in BOOLEAN : LockAcquired(k, cookie_file)
    \/ \E k \in Creators : Close(k)
    \/ \E c \in Requests : RequestEnters(c)
    \/ \E c \in Calls : TurnGranted(c)
    \/ \E c \in Calls : CooldownDone(c)
    \/ \E c \in Calls, token \in BOOLEAN : HttpReturns(c, token)
    \/ \E c \in Calls : HttpRaises(c)
    \/ Tick

SpecGate == Init /\ [][NextGate]_vars

\* the same, with close() repeated on an instance and with tasks cancelled
\* inside _rate_limited_request
NextGateAny ==
    \/ NextGate
    \/ \E k \in Creators : CloseAgain(k)
    \/ \E c \in Requests : Cancelled(c)

SpecGateAny == Init /\ [][NextGateAny]_vars

\* handlers of any bot on any user post, and on the replies they post
NextBot ==
    \/ \E b \in Bots, raw \in UserRaws : HandlerStarts(b, raw)
    \/ ReplyAppears
    \/ GetPostDetailsReturns
    \/ GetPostDetailsRaises
    \/ \E o \in ConditionOutcomes : ConditionsReturn(o)
    \/ ConditionsRaise
    \/ \E status \in Statuses : ReplyResponse(status)
    \/ ReplySleepDone
    \/ ReplyRequestRaises

SpecBot == Init /\ [][NextBot]_vars

\* the watch loops and the cron job of a topic model, in any interleaving
NextSched ==
    \/ \E w \in Watchers : PollEnters(w)
    \/ \E w \in Watchers : PollReturns(w)
    \/ \E w \in Watchers : PollRaises(w)
    \/ JobFires
    \/ JobReplies
    \/ JobReplyAccepted
    \/ JobReplyLimited
    \/ JobRetries
    \/ JobRaises
    \/ JobReplyRaises

SpecSched == Init /\ [][NextSched]_vars

\* the action watcher against any sequence of fetched actions
NextAction ==
    \/ \E s \in ActionStreams : ActionFetchSucceeds(s)
    \/ \E failure \in FetchFailures : ActionFetchRaises(failure)

SpecAction == Init /\ [][NextAction]_vars

\* the HTTP operations of ShuiyuanModel, one after the other
SpecCalls == Init /\ [][NextCalls]_vars

\* the calls of _make_unique_reply
SpecTag == Init /\ [][NextTag]_vars

GateTypeOK ==
    /\ shared_session \in 0..NumCreators
    /\ sessions_made \in 0..NumCreators
    /\ lock_holder \in {None} \cup Creators
    /\ request_chain \in {None, ResolvedFuture} \cup Calls
    /\ fut_done \subseteq Calls
    /\ active_instances \in 0..NumCreators
    /\ clock \in 0..MaxClock
    /\ cpc \in [Creators -> {"idle", "lock_wait", "bootstrap", "created", "failed",
                             "closed", "close_raised"}]
    /\ rpc \in [Calls -> {"idle", "rejected", "waiting", "cooldown", "http",
                          "returned", "raised", "cancelled"}]

TypeOK ==
    /\ stream_list \in Streams
    /\ wpc \in {"fetch", "sleep", "backoff"}
    /\ topic_stream \in Streams
    /\ Len(tasks) <= MaxTasks
    /\ failures \in 0..MaxFailures
\* ================================================================ claims
\* number of handler tasks ever created for a post id
Dispatches(id) == Cardinality({i \in DOMAIN tasks : tasks[i].post_id = id})

\* a step of the watcher that is a successful poll (fetch returned)
IsSuccessfulPoll == wpc = "fetch" /\ wpc' \notin {"fetch", "backoff", "terminated"}

\* the handler tasks created by the step
Dispatched == SubSeq(tasks', Len(tasks) + 1, Len(tasks'))

DispatchExactlyAppended ==
    \A id \in Ids :
        Dispatches(id) =
            IF id \in Range(stream_list) /\ id \notin Range(first_poll) THEN 1 ELSE 0

\* C1 (as stated): in an append-only run, once a successful poll has happened,
\* every id fetched so far that was not in the first successful poll has been
\* dispatched exactly once and every id of the first poll (and every id not yet
\* fetched) has never been dispatched.
C1_AppendedDispatchedOnce ==
    first_poll # NoPoll => DispatchExactlyAppended

\* C1 (amended): the same, for runs whose first successful poll returned a
\* non-empty sequence.
C1_AppendedDispatchedOnceAfterNonEmptyFirstPoll ==
    (first_poll # NoPoll /\ first_poll # <<>>) => DispatchExactlyAppended

C1_Witness ==
    /\ first_poll # NoPoll /\ first_poll # <<>>
    /\ Len(stream_list) = Len(first_poll) + 2
    /\ wpc = "fetch"
    /\ \A id \in Range(stream_list) \ Range(first_poll) : Dispatches(id) = 1

\* C7: in a successful poll with previous snapshot P and fetched sequence C, if
\* some id of P occurs in C, the handlers created in that poll are exactly the
\* elements of C after the position of the last element of P occurring in C,
\* one per id, in the order of C.
C7_DispatchSuffixAfterAnchor ==
    [][ (IsSuccessfulPoll /\ Range(stream_list) \cap Range(topic_stream') # {}) =>
            LET P == stream_list
                C == topic_stream'
                j == CHOOSE x \in DOMAIN P :
                        /\ P[x] \in Range(C)
                        /\ \A y \in DOMAIN P : y > x => P[y] \notin Range(C)
                k == CHOOSE x \in DOMAIN C : C[x] = P[j]
            IN /\ Len(Dispatched) = Len(C) - k
               /\ \A i \in 1..(Len(C) - k) :
                     Dispatched[i] = [post_id |-> C[k + i], st |-> "running"]
      ]_vars

C7_Witness ==
    /\ wpc = "sleep"
    /\ last_poll = "anchored"
    /\ Len(stream_list) = 3
    /\ Len(tasks) = 2
    /\ tasks[1] = [post_id |-> stream_list[2], st |-> "running"]
    /\ tasks[2] = [post_id |-> stream_list[3], st |-> "running"]

\* C8: a successful poll in which no id of the previous snapshot occurs in the
\* fetched sequence creates no handler and makes stream_list the fetched sequence.
C8_SilentOnDiscontinuity ==
    [][ (IsSuccessfulPoll /\ Range(stream_list) \cap Range(topic_stream') = {}) =>
            /\ tasks' = tasks
            /\ stream_list' = topic_stream'
      ]_vars

C8_Witness ==
    /\ wpc = "sleep"
    /\ last_poll = "rotated"
    /\ stream_list # <<>>
    /\ tasks = <<>>

\* C9: when the fetch raises, the loop goes to the backoff sleep with
\* stream_list and the handler tasks unchanged, the backoff is followed by a
\* fetch, and the loop never terminates.
C9_FetchErrorRecovered ==
    [][ /\ (failures' > failures) =>
              /\ wpc' = "backoff"
              /\ stream_list' = stream_list
              /\ tasks' = tasks
        /\ (wpc = "backoff" /\ wpc' # "backoff") => wpc' = "fetch"
        /\ wpc' # "terminated"
      ]_vars

C9_Witness ==
    /\ wpc = "fetch"
    /\ failures >= 2
    /\ stream_list # <<>>

\* C10: a successful poll goes straight to the sleep, leaving every earlier
\* handler task as it was; the loop is never waiting for handlers; a handler
\* that raises changes neither the loop's position nor any other task.
C10_DispatchAndForget ==
    [][ /\ IsSuccessfulPoll =>
              /\ wpc' = "sleep"
              /\ SubSeq(tasks', 1, Len(tasks)) = tasks
        /\ wpc' \in {"fetch", "sleep", "backoff"}
        /\ \A i \in DOMAIN tasks :
              (tasks[i].st = "running" /\ tasks'[i].st = "raised") =>
                  /\ wpc' = wpc
                  /\ \A j \in DOMAIN tasks : j # i => tasks'[j] = tasks[j]
      ]_vars

C10_Witness ==
    /\ wpc = "fetch"
    /\ Len(tasks) = 2
    /\ tasks[1].st = "raised"
    /\ tasks[2].st = "running"
\* position of call c in the order of entry
EnteredAt(c) == CHOOSE n \in DOMAIN entered : entered[n] = c

\* the calls between being granted their turn and signalling their successor
PastTheGate == {c \in Calls : rpc[c] \in {"cooldown", "http"}}

\* C2: the HTTP calls are issued in the order in which their callers entered
\* _rate_limited_request, whichever task or create() they come from.
C2_IssuedInEntryOrder ==
    \A i, j \in DOMAIN issued :
        i < j => EnteredAt(issued[i]) < EnteredAt(issued[j])

C2_Witness ==
    /\ Len(issued) >= 3
    /\ \E i \in DOMAIN issued : IsBootstrap(issued[i])
    /\ \E i \in DOMAIN issued : ~IsBootstrap(issued[i])
    /\ \E c \in Calls : rpc[c] = "returned"

\* C3: at most one caller is sleeping out the cooldown or awaiting its HTTP
\* call, in every state reached by requests interleaved with create() and close().
C3_AtMostOnePastTheGate == Cardinality(PastTheGate) <= 1

C3_Witness ==
    /\ \E c \in Calls : rpc[c] = "http"
    /\ \E c \in Calls : rpc[c] = "waiting"
    /\ \E k \in Creators : cpc[k] \in {"closed", "close_raised"}

\* C4: consecutive HTTP calls are issued at least request_interval apart.
C4_MinIntervalBetweenCalls == closest >= request_interval

\* C5: a caller whose HTTP call has returned or raised has signalled its
\* successor, so a caller queued behind a failed request still gets its turn.
C5_SuccessorSignalledOnEveryExit ==
    \A c \in Calls :
        rpc[c] \in {"returned", "raised"} =>
            /\ c \in fut_done
            /\ \A d \in Calls :
                  (rpc[d] = "waiting" /\ wait_for[d] = c) => ENABLED TurnGranted(d)

C5_Witness ==
    \E c, d \in Calls :
        /\ rpc[c] = "raised"
        /\ \E i \in DOMAIN issued : issued[i] = c
        /\ wait_for[d] = c
        /\ rpc[d] \in {"cooldown", "http", "returned"}

\* C6: once every create() has returned an instance and every instance has
\* been closed, exactly one session was constructed, exactly one was closed
\* and the shared session, the request chain and the timestamp are reset.
C6_OneSessionBuiltAndClosed ==
    (\A k \in Creators : cpc[k] \in {"closed", "close_raised"}) =>
        /\ sessions_made = 1
        /\ Cardinality(closed_sessions) = 1
        /\ shared_session = None
        /\ request_chain = None
        /\ last_request_ts = 0

\* the handler has fetched a post whose raw content carries the marker
MarkerFetched == post_details /\ post_raw # NoRaw /\ Contains(post_raw, AutoReplyTag)

\* C11: the handler of every concrete bot never raises, whatever
\* get_post_details, the keyword conditions and reply_to_post do
C11_HandlersNeverRaise == hpc # "raised"

\* C12: no handler posts a reply to a post the bot itself authored, and every
\* text handed to reply_to_post carries the auto-reply marker
C12_NoReplyToOwnPost ==
    /\ self_replies = 0
    /\ hpc \in {"reply", "reply_sleep"} => Contains(text, AutoReplyTag)

\* C13: when the fetched post carries the auto-reply marker the handler ends
\* without a reply_to_post call and without evaluating a keyword condition
C13_MarkedPostIgnored ==
    MarkerFetched =>
        /\ hpc = "returned"
        /\ reply_calls = 0
        /\ conditions_run = 0
        /\ text = NoText

C13_Witness == MarkerFetched /\ hpc = "returned" /\ Contains(post_raw, Keyword)

\* C14: reply_to_post that got k answers 429 has sent k+1 POSTs and slept k
\* times when it returns (on 200) and when it raises (on any other status);
\* between a 429 and the next POST it has sent k POSTs and slept k times
C14_RetryOn429Only ==
    /\ (hpc = "returned" /\ reply_calls = 1) =>
            posts_sent = got429 + 1 /\ sleeps = got429 /\ raised_by = "none"
    /\ raised_by = "status" =>
            hpc = "raised" /\ posts_sent = got429 + 1 /\ sleeps = got429
    /\ hpc = "reply" => posts_sent = got429 + 1 /\ sleeps = got429
    /\ hpc = "reply_sleep" => posts_sent = got429 /\ sleeps = got429

C14_Witness == hpc = "returned" /\ reply_calls = 1 /\ got429 = MaxRetries

CreateWithoutCookies(k) == Create(k, FALSE) \/ LockAcquired(k, FALSE)

\* create() k ends with an exception: no instance, no count, no second try
CreateFailed(k) ==
    /\ cpc'[k] = "failed"
    /\ active_instances' = active_instances

\* C15: a close() that leaves _active_instances above zero only counts down:
\* session, request chain and last-request timestamp stay as they are; and a
\* step that drops or closes the session is a close() that brings the count
\* to zero
C15_CloseAboveZeroOnlyDecrements ==
    [][/\ \A k \in Creators :
            (Close(k) /\ active_instances' > 0) =>
                /\ active_instances' = active_instances - 1
                /\ shared_session' = shared_session
                /\ closed_sessions' = closed_sessions
                /\ request_chain' = request_chain
                /\ last_request_ts' = last_request_ts
       /\ (SessionOpen /\ ~SessionOpen') =>
            \E k \in Creators : Close(k) /\ active_instances' = 0]_vars

C15_Witness ==
    \E k \in Creators :
        cpc[k] = "closed" /\ active_instances > 0 /\ SessionOpen /\ request_chain # None

\* C16 (as stated): create() with the cookie file absent always fails, and so
\* does a bootstrap response without CSRF token
C16_CreateFailsWithoutCookies ==
    [][\A k \in Creators :
        /\ CreateWithoutCookies(k) => CreateFailed(k)
        /\ HttpReturns(BootCall(k), FALSE) => CreateFailed(k)]_vars

\* C16 (amended): create() that finds no open shared session fails when the
\* cookie file is absent, constructing no session, and fails when the
\* bootstrap response has no CSRF token; a failed create() stays failed (no
\* retry), returns no instance and does not count
C16_CreateFailsWithoutCookiesOrToken ==
    [][\A k \in Creators :
        /\ (CreateWithoutCookies(k) /\ ~SessionOpen) =>
                /\ CreateFailed(k)
                /\ sessions_made' = sessions_made
                /\ shared_session' = shared_session
        /\ HttpReturns(BootCall(k), FALSE) => CreateFailed(k)
        /\ cpc[k] = "failed" => cpc'[k] = "failed"]_vars

\* one create() has failed for the missing file, another for the missing token
C16_Witness ==
    \E k, l \in Creators :
        /\ cpc[k] = "failed" /\ rpc[BootCall(k)] = "idle"
        /\ cpc[l] = "failed" /\ rpc[BootCall(l)] = "returned"

\* the holder of the gate can always end its request
HeadCanLeave ==
    \/ \E w \in Watchers : ENABLED PollReturns(w)
    \/ ENABLED JobReplyAccepted

\* a step of watch loop w
WatcherStep(w) == PollEnters(w) \/ PollReturns(w) \/ PollRaises(w)

\* position of caller c in the gateway, in ticket order
TicketOf(c) == CHOOSE i \in DOMAIN gate_queue : gate_queue[i] = c

\* watcher w waits in the gateway behind the job's reply
WaitsForJob(w) ==
    /\ Contains(gate_queue, w)
    /\ Contains(gate_queue, Job)
    /\ TicketOf(Job) < TicketOf(w)

\* a due job starts whatever the watchers are doing
DueJobStarts ==
    (scheduler_running /\ job_registered /\ job_pc = "idle" /\ job_fires < MaxFires)
        => ENABLED JobFires

Unknown(prev, new_stream) == {i \in DOMAIN new_stream : ~Contains(prev, new_stream[i])}

\* the prefix of new_stream that ends at the first occurrence of the id of the
\* last unknown item
PrefixToLastUnknown(prev, new_stream) ==
    LET u == Unknown(prev, new_stream)
        last == CHOOSE i \in u : \A j \in u : j <= i
        first == CHOOSE i \in DOMAIN new_stream :
                    /\ new_stream[i] = new_stream[last]
                    /\ \A j \in 1..(i - 1) : new_stream[j] # new_stream[last]
    IN SubSeq(new_stream, 1, first)

\* C20 (as stated): each poll of the action watcher dispatches what the
\* Stream Differ of the topic watcher returns for the same snapshot and fetch
C20_ActionWatcherUsesStreamDiffer ==
    action_prev # NoPoll => action_tasks = NewPosts(action_prev, action_list)

\* C20 (amended): with an empty snapshot, or when every fetched id is known,
\* a poll dispatches nothing; otherwise it dispatches the prefix of the
\* fetched sequence up to the first occurrence of the id of its last unknown
\* item
C20_ActionWatcherDispatchesPrefix ==
    action_prev # NoPoll =>
        action_tasks =
            IF action_prev = <<>> \/ Unknown(action_prev, action_list) = {}
            THEN <<>>
            ELSE PrefixToLastUnknown(action_prev, action_list)

\* a poll found a new action in front of a known one
C20_Witness ==
    /\ action_prev # NoPoll
    /\ action_tasks # <<>>
    /\ Len(action_tasks) < Len(action_list)
    /\ Contains(action_prev, action_list[Len(action_list)])

\* the instances returned by create() and not closed since
OpenInstances == {k \in Creators : cpc[k] = "created"}

\* a create() is bootstrapping the shared session
Bootstrapping == \E k \in Creators : cpc[k] = "bootstrap"

\* the bootstrap call of some create() came back with a CSRF token
BootstrapCompleted ==
    \E k \in Creators :
        rpc[BootCall(k)] = "returned" /\ cpc[k] \in {"created", "closed", "close_raised"}

\* C23: an installed open session is being bootstrapped or has been
\* bootstrapped successfully, and so has the session of every instance
\* returned by create()
C23_SessionBootstrapped ==
    /\ (SessionOpen /\ ~Bootstrapping) => BootstrapCompleted
    /\ OpenInstances # {} => BootstrapCompleted

\* C24: a caller that waits behind a cancelled caller can take its turn
C24_CancelledCallerReleasesSuccessor ==
    \A c, d \in Calls :
        (rpc[c] = "cancelled" /\ rpc[d] = "waiting" /\ wait_for[d] = c)
            => ENABLED TurnGranted(d)

\* C29: _active_instances is the number of instances returned by create()
\* and not closed, hence never negative; the session stays open while an
\* instance is open
C29_CountIsOpenInstances ==
    /\ active_instances >= 0
    /\ active_instances = Cardinality(OpenInstances)
    /\ OpenInstances # {} => SessionOpen

\* the callers that entered _rate_limited_request and took a ticket
Entered == {c \in Calls : \E n \in DOMAIN entered : entered[n] = c}

\* the ticket a waiting caller awaits is set, or its owner is still inside
\* _rate_limited_request and sets it when it leaves
TurnStillComes(d) ==
    \/ Done(wait_for[d])
    \/ rpc[wait_for[d]] \in {"waiting", "cooldown", "http"}

\* C25: every caller waiting in _rate_limited_request still gets its turn,
\* and no caller that entered after it has been granted the gate before it
C25_EveryCallerGetsItsTurn ==
    \A d \in Entered :
        rpc[d] = "waiting" =>
            /\ TurnStillComes(d)
            /\ \A e \in Entered :
                  EnteredAt(e) > EnteredAt(d) => rpc[e] = "waiting"

\* C26: every action a poll of the user-action watcher dispatches has a post
\* id that the previous snapshot does not hold
C26_DispatchedActionsAreNew ==
    action_prev # NoPoll =>
        \A i \in DOMAIN action_tasks : ~Contains(action_prev, action_tasks[i])

\* C27: every iteration of watch_new_action_routine, a failed one included,
\* suspends at an await
C27_EveryIterationSuspends == action_yielded

\* the ids for which a handler task was ever created
DispatchedIds == {tasks[i].post_id : i \in DOMAIN tasks}

\* C28: against a forum that only deletes posts and appends posts with fresh
\* ids, no id is dispatched more than once
C28_NoIdDispatchedTwice ==
    \A i, j \in DOMAIN tasks : tasks[i].post_id = tasks[j].post_id => i = j

\* an id was deleted after its dispatch and a later post was dispatched too
C28_Witness ==
    /\ Len(tasks) = 2
    /\ tasks[1].post_id \in removed_ids
    /\ tasks[2].post_id \in Range(stream_list)
    /\ last_poll = "anchored"

\* C30: a successful fetch of an empty sequence empties the snapshot and
\* dispatches nothing, a poll with an empty snapshot dispatches nothing, and
\* no id fetched by a poll with an empty snapshot is ever dispatched
C30_EmptyFetchRestartsBootstrap ==
    [][ /\ (IsSuccessfulPoll /\ topic_stream' = <<>>) =>
              (stream_list' = <<>> /\ tasks' = tasks)
        /\ (IsSuccessfulPoll /\ stream_list = <<>>) => tasks' = tasks
        /\ skipped_ids' \cap {tasks'[i].post_id : i \in DOMAIN tasks'} = {}
      ]_vars

\* C30 (amended): a successful fetch of an empty sequence empties the snapshot
\* and dispatches nothing, a poll with an empty snapshot dispatches nothing,
\* and no later poll dispatches an id that a poll with an empty snapshot
\* fetched while the id is still in the snapshot
C30_EmptyFetchRestartsBootstrapWhilePresent ==
    [][ /\ (IsSuccessfulPoll /\ topic_stream' = <<>>) =>
              (stream_list' = <<>> /\ tasks' = tasks)
        /\ (IsSuccessfulPoll /\ stream_list = <<>>) => tasks' = tasks
        /\ IsSuccessfulPoll =>
              \A i \in DOMAIN Dispatched :
                  Dispatched[i].post_id \notin skipped_ids \cap Range(stream_list)
      ]_vars

\* after a dispatch the watcher fetched an empty sequence, and the next
\* non-empty fetch was taken into the snapshot silently
C30_Witness ==
    /\ tasks # <<>>
    /\ last_poll = "bootstrap"
    /\ stream_list # <<>>
    /\ DispatchedIds \subseteq removed_ids
    /\ Range(stream_list) \subseteq skipped_ids

\* C21: every HTTP call of an operation of ShuiyuanModel, the retries of
\* reply_to_post included, was issued by _rate_limited_request, and an
\* operation awaiting a response has its call on record
C21_EveryCallThroughTheGate ==
    /\ \A e \in http_calls : e.via = "_rate_limited_request"
    /\ call_pc = "http" => HttpCall("_rate_limited_request") \in http_calls

\* every operation has sent a request, reply_to_post also a second time
C21_Witness ==
    /\ {e.op : e \in http_calls} = Operations
    /\ \E e \in http_calls : e.op = "reply_to_post" /\ e.attempt = 1

====
